---- MODULE Spec2Model ----
(***************************************************************************)
(* Embedding strategies (EmbeddingsModel, NaiveBayesModel, Word2VecModel,  *)
(* TransformerModel, AutoTransformerModel) and the driver fit_best.        *)
(*                                                                         *)
(* A Python str is a sequence of one-character strings, so that            *)
(* formatting, path joining, basename, split and the code-point order of   *)
(* sorted() are computed and not assumed.  A float that the program        *)
(* formats is kept in thousandths.                                         *)
(***************************************************************************)
EXTENDS Integers, Sequences, FiniteSets, TLC

VARIABLES objs, fs, dirs, trainCount, ev, corpus, labels, tree, ret,
          pc, results, evaluated, csv, axes

vars == <<objs, fs, dirs, trainCount, ev, corpus, labels, tree, ret,
          pc, results, evaluated, csv, axes>>

(***************************************************************************)
(* Bounds of the model.                                                    *)
(***************************************************************************)
\* documents in a corpus handed to sentence_vectors
MaxDocs == 3
\* stand-in for the embedding dimensionality of a trained Word2Vec
VectorSize == 2
\* longest hyperparameter axis list handed to fit_best
MaxAxis == 2
\* rows of a results mapping handed to the leaderboard sort
MaxRows == 3
\* files in the directory tree handed to load_data
MaxFiles == 3

(***************************************************************************)
(* Strings.                                                                *)
(***************************************************************************)
\* The characters the program's names use, in ascending code-point order.
Alphabet ==
  << " ", "-", ".", "/", "0", "1", "2", "3", "4", "5", "6", "7", "8", "9",
     "A", "B", "C", "E", "L", "M", "N", "R", "S", "W", "_",
     "a", "b", "c", "d", "e", "f", "g", "h", "i", "l", "m", "n", "o", "p",
     "r", "s", "t", "u", "v", "w", "x", "y" >>

Ord(c) == CHOOSE i \in 1..Len(Alphabet) : Alphabet[i] = c

\* Python's s < t on str: the first differing character decides, a proper
\* prefix is smaller.
RECURSIVE StrLess(_, _)
StrLess(s, t) ==
  IF t = << >> THEN FALSE
  ELSE IF s = << >> THEN TRUE
  ELSE IF Head(s) = Head(t) THEN StrLess(Tail(s), Tail(t))
  ELSE Ord(Head(s)) < Ord(Head(t))

Digits == << "0", "1", "2", "3", "4", "5", "6", "7", "8", "9" >>

\* str(n) of a non-negative int.
RECURSIVE IntStr(_)
IntStr(n) ==
  IF n < 10 THEN << Digits[n + 1] >>
  ELSE IntStr(n \div 10) \o << Digits[(n % 10) + 1] >>

\* The fraction digits of a float k/1000 as repr() prints them: three
\* places with the trailing zeros dropped, at least one digit kept.
RECURSIVE StripZeros(_)
StripZeros(ds) ==
  IF Len(ds) > 1 /\ ds[Len(ds)] = "0"
    THEN StripZeros(SubSeq(ds, 1, Len(ds) - 1))
    ELSE ds

FracStr(k) ==
  StripZeros(<< Digits[(k \div 100) + 1], Digits[((k \div 10) % 10) + 1],
                Digits[(k % 10) + 1] >>)

\* A hyperparameter value: an int n, or the float milli/1000.
IntVal(n) == [float |-> FALSE, n |-> n]
FloatVal(milli) == [float |-> TRUE, n |-> milli]

\* f"{v}" of a hyperparameter value.
Fmt(v) ==
  IF v.float
    THEN IntStr(v.n \div 1000) \o << "." >> \o FracStr(v.n % 1000)
    ELSE IntStr(v.n)

\* The positions of character ch in s.
IndexesOf(s, ch) == { i \in 1..Len(s) : s[i] = ch }

\* s.split(".")[0]: the characters before the first ".", all of s when it
\* has none.
SplitDotFirst(s) ==
  LET dots == IndexesOf(s, ".")
  IN IF dots = {} THEN s
     ELSE SubSeq(s, 1, (CHOOSE i \in dots : \A j \in dots : i <= j) - 1)

\* os.path.basename: the characters after the last "/", all of p when it
\* has none.
Basename(p) ==
  LET slashes == IndexesOf(p, "/")
  IN IF slashes = {} THEN p
     ELSE SubSeq(p, (CHOOSE i \in slashes : \A j \in slashes : i >= j) + 1,
                 Len(p))

\* os.path.join(a, b) of a directory and a relative name.
PathJoin(a, b) == a \o << "/" >> \o b

(***************************************************************************)
(* Names.                                                                  *)
(***************************************************************************)
\* EmbeddingsModel.__init__: "embeddings_model"
NameBase ==
  << "e", "m", "b", "e", "d", "d", "i", "n", "g", "s", "_",
     "m", "o", "d", "e", "l" >>
\* NaiveBayesModel.__init__: "Naive Bayes"
NameNaiveBayes == << "N", "a", "i", "v", "e", " ", "B", "a", "y", "e", "s" >>
\* Word2VecModel.__init__: "word2vec"
NameWord2Vec == << "w", "o", "r", "d", "2", "v", "e", "c" >>
\* TransformerModel.__init__: "transformer"
NameTransformer ==
  << "t", "r", "a", "n", "s", "f", "o", "r", "m", "e", "r" >>
\* MiniTransformerModel.__init__: "all-MiniLM-L6-v2"
NameMini ==
  << "a", "l", "l", "-", "M", "i", "n", "i", "L", "M", "-", "L", "6", "-",
     "v", "2" >>
\* E5TransformerModel.__init__: "e5-small-v2"
NameE5 == << "e", "5", "-", "s", "m", "a", "l", "l", "-", "v", "2" >>

DefaultAlpha == FloatVal(25)
DefaultWindow == IntVal(5)
DefaultNegative == IntVal(5)

\* The derived name without its negative component.
DerivedNameWithoutNegative(alpha, window, negative) ==
  NameWord2Vec \o << "_", "a", "l", "p", "h", "a", "-" >> \o Fmt(alpha)
    \o << "_", "w", "i", "n", "d", "o", "w", "-" >> \o Fmt(window)

\* f"word2vec_alpha-{alpha}_window-{window}_negative-{negative}"
DerivedName(alpha, window, negative) ==
  NameWord2Vec \o << "_", "a", "l", "p", "h", "a", "-" >> \o Fmt(alpha)
    \o << "_", "w", "i", "n", "d", "o", "w", "-" >> \o Fmt(window)
    \o << "_", "n", "e", "g", "a", "t", "i", "v", "e", "-" >> \o Fmt(negative)

\* os.path.join(output, f"{self.name}.txt")
ArtifactPath(output, name) ==
  PathJoin(output, name \o << ".", "t", "x", "t" >>)

\* f"{output}_Loss"
LossDir(output) == output \o << "_", "L", "o", "s", "s" >>

\* os.path.join(loss_output, f"{self.name}_loss.txt")
LossPath(output, name) ==
  PathJoin(LossDir(output),
           name \o << "_", "l", "o", "s", "s", ".", "t", "x", "t" >>)

(***************************************************************************)
(* Objects.                                                                *)
(***************************************************************************)
\* self.model: None, a trained or loaded Word2Vec (the triple it was
\* trained with, the tokens in its vocabulary), or a pretrained encoder.
NoneModel == [kind |-> "None", triple |-> << >>, vocab |-> {}]
Word2Vec(triple, vocab) == [kind |-> "w2v", triple |-> triple, vocab |-> vocab]
Pretrained == [kind |-> "pretrained", triple |-> << >>, vocab |-> {}]

\* EmbeddingsModel.__init__
NewEmbeddingsModel(name) ==
  [name |-> name, model |-> NoneModel, parameters |-> 0, tokenizer |-> FALSE]
NewNaiveBayesModel == NewEmbeddingsModel(NameNaiveBayes)
NewWord2VecModel == NewEmbeddingsModel(NameWord2Vec)
\* TransformerModel.__init__: the model stays None, the tokenizer None
NewTransformerModel == NewEmbeddingsModel(NameTransformer)
\* AutoTransformerModel.__init__ with from_pretrained having succeeded
NewAutoTransformerModel(name, parameters) ==
  [name |-> name, model |-> Pretrained, parameters |-> parameters,
   tokenizer |-> TRUE]
NewMiniTransformerModel == NewAutoTransformerModel(NameMini, 22700000)
NewE5TransformerModel == NewAutoTransformerModel(NameE5, 33400000)

Instances == {"w1", "w2", "nb", "base", "tf", "mini"}

ClassOf(i) ==
  CASE i \in {"w1", "w2"} -> "Word2VecModel"
    [] i = "nb" -> "NaiveBayesModel"
    [] i = "base" -> "EmbeddingsModel"
    [] i = "tf" -> "TransformerModel"
    [] i = "mini" -> "AutoTransformerModel"

Construct(i) ==
  CASE ClassOf(i) = "Word2VecModel" -> NewWord2VecModel
    [] ClassOf(i) = "NaiveBayesModel" -> NewNaiveBayesModel
    [] ClassOf(i) = "EmbeddingsModel" -> NewEmbeddingsModel(NameBase)
    [] ClassOf(i) = "TransformerModel" -> NewTransformerModel
    [] ClassOf(i) = "AutoTransformerModel" -> NewMiniTransformerModel

\* The classes whose method resolution finds fit, and load.
HasFit(cls) == cls = "Word2VecModel"
HasLoad(cls) == cls \in {"Word2VecModel", "AutoTransformerModel"}

(***************************************************************************)
(* Word2VecModel.fit and Word2VecModel.load.                               *)
(***************************************************************************)
ParamKeys == {"Alpha", "Window", "Negative"}

\* params["Alpha"] if "Alpha" in params else 0.025, and so on
ParamOr(params, key, default) ==
  IF key \in DOMAIN params THEN params[key] ELSE default

EffectiveTriple(params) ==
  << ParamOr(params, "Alpha", DefaultAlpha),
     ParamOr(params, "Window", DefaultWindow),
     ParamOr(params, "Negative", DefaultNegative) >>

NameOfTriple(t) == DerivedName(t[1], t[2], t[3])

\* The file system with path p written with content c.
WriteFile(f, p, c) ==
  [q \in DOMAIN f \cup {p} |-> IF q = p THEN c ELSE f[q]]

LossFile == [kind |-> "loss", triple |-> << >>, vocab |-> {}]

\* fit without the check of the artifact path: it always trains.
FitTrainsAlways(f, path) == TRUE

\* Whether fit goes on to train: the artifact path does not exist.
FitTrains(f, path) == path \notin DOMAIN f

\* Word2VecModel.fit(corpus, output, seed, params) on self, with f the
\* files and d the directories that exist; vocab is the vocabulary the
\* library builds from the corpus.  Gives self, the files and the
\* directories after the call and whether Word2Vec(...) was called.
Word2VecFit(self, f, d, output, params, vocab) ==
  LET t == EffectiveTriple(params)
      name == NameOfTriple(t)
      path == ArtifactPath(output, name)
      named == [self EXCEPT !.name = name]
  IN IF ~FitTrains(f, path)
       THEN [self |-> named, fs |-> f, dirs |-> d, trained |-> FALSE]
       ELSE LET m == Word2Vec(t, vocab)
            IN [self |-> [named EXCEPT !.model = m],
                fs |-> WriteFile(WriteFile(f, path, m),
                                 LossPath(output, name), LossFile),
                dirs |-> d \cup {output, LossDir(output)},
                trained |-> TRUE]

\* Whether Word2Vec.load(path) returns: the path holds a saved Word2Vec.
LoadSucceeds(f, path) == path \in DOMAIN f /\ f[path].kind = "w2v"

\* Word2VecModel.load(path) on self.
Word2VecLoad(self, f, path) ==
  IF LoadSucceeds(f, path)
    THEN [self EXCEPT !.model = f[path],
                      !.name = SplitDotFirst(Basename(path))]
    ELSE [self EXCEPT !.model = NoneModel]

\* AutoTransformerModel.load(path): the path is unused; from_pretrained is
\* called for the model, then for the tokenizer, and either may raise.
AutoLoad(self, outcome) ==
  CASE outcome = "ok" -> [self EXCEPT !.model = Pretrained, !.tokenizer = TRUE]
    [] outcome = "model_raises" -> self
    [] outcome = "tokenizer_raises" -> [self EXCEPT !.model = Pretrained]

AutoLoadOutcomes == {"ok", "model_raises", "tokenizer_raises"}

(***************************************************************************)
(* The inputs of the life cycle: output folders, hyperparameter            *)
(* dictionaries, vocabularies and paths.                                   *)
(***************************************************************************)
Outputs == { << "o" >>, << "p" >> }

\* The params dictionaries handed to fit: None (the empty one), one key,
\* two keys, all three keys.
ParamsChoices ==
  { << >>,
    [k \in {"Alpha"} |-> FloatVal(10)],
    [k \in {"Window", "Negative"} |-> IntVal(5)],
    [k \in ParamKeys |-> IF k = "Alpha" THEN FloatVal(25) ELSE IntVal(5)] }

Triples == { EffectiveTriple(p) : p \in ParamsChoices }

Tokens == {"a", "b", "c"}
\* The vocabularies a training can end with: the library keeps the tokens
\* frequent enough in the corpus it is given.
Vocabularies == {{"a"}, {"a", "b"}}
\* The vocabulary of the trainings of the life cycle.
FitVocabularies == {{"a"}}

ArtifactPaths == { ArtifactPath(o, NameOfTriple(t)) : o \in Outputs, t \in Triples }
LossPaths == { LossPath(o, NameOfTriple(t)) : o \in Outputs, t \in Triples }
\* A path that no fit writes.
OtherPath == << "x" >>
LoadPaths == ArtifactPaths \cup LossPaths \cup {OtherPath}

(***************************************************************************)
(* The life cycle of the strategy objects over one file system.            *)
(***************************************************************************)
NoEvent ==
  [op |-> "init", inst |-> "", path |-> << >>, existed |-> FALSE,
   raised |-> FALSE]

IdleDriver ==
  /\ pc = "idle"
  /\ results = << >>
  /\ evaluated = << >>
  /\ csv = << >>
  /\ axes = << >>

IdleQuery ==
  /\ corpus = << >>
  /\ labels = << >>
  /\ tree = << >>
  /\ ret = << >>

Init ==
  /\ objs = [i \in Instances |-> Construct(i)]
  /\ fs = << >>
  /\ dirs = {}
  /\ trainCount = [p \in ArtifactPaths |-> 0]
  /\ ev = NoEvent
  /\ IdleQuery
  /\ IdleDriver

\* instance.fit(corpus, output, seed, params) where the class has fit
Fit(i, output, params, vocab) ==
  /\ HasFit(ClassOf(i))
  /\ LET r == Word2VecFit(objs[i], fs, dirs, output, params, vocab)
         path == ArtifactPath(output, r.self.name)
     IN /\ objs' = [objs EXCEPT ![i] = r.self]
        /\ fs' = r.fs
        /\ dirs' = r.dirs
        /\ trainCount' = IF r.trained
                           THEN [trainCount EXCEPT ![path] = @ + 1]
                           ELSE trainCount
        /\ ev' = [op |-> "fit", inst |-> i, path |-> path,
                  existed |-> path \in DOMAIN fs, raised |-> FALSE,
                  output |-> output, params |-> params]
  /\ UNCHANGED <<corpus, labels, tree, ret, pc, results, evaluated, csv, axes>>

\* instance.fit(...) where no class of the instance defines fit:
\* AttributeError
FitMissing(i) ==
  /\ ~HasFit(ClassOf(i))
  /\ ev' = [op |-> "fit", inst |-> i, path |-> << >>, existed |-> FALSE,
            raised |-> TRUE]
  /\ UNCHANGED <<objs, fs, dirs, trainCount, corpus, labels, tree, ret,
                 pc, results, evaluated, csv, axes>>

\* Word2VecModel.load(path)
Load(i, path) ==
  /\ ClassOf(i) = "Word2VecModel"
  /\ objs' = [objs EXCEPT ![i] = Word2VecLoad(objs[i], fs, path)]
  /\ ev' = [op |-> "load", inst |-> i, path |-> path,
            existed |-> LoadSucceeds(fs, path), raised |-> FALSE]
  /\ UNCHANGED <<fs, dirs, trainCount, corpus, labels, tree, ret,
                 pc, results, evaluated, csv, axes>>

\* AutoTransformerModel.load(path)
LoadAuto(i, path, outcome) ==
  /\ ClassOf(i) = "AutoTransformerModel"
  /\ objs' = [objs EXCEPT ![i] = AutoLoad(objs[i], outcome)]
  /\ ev' = [op |-> "load", inst |-> i, path |-> path,
            existed |-> outcome = "ok", raised |-> outcome # "ok"]
  /\ UNCHANGED <<fs, dirs, trainCount, corpus, labels, tree, ret,
                 pc, results, evaluated, csv, axes>>

\* instance.load(path) where no class of the instance defines load:
\* AttributeError
LoadMissing(i, path) ==
  /\ ~HasLoad(ClassOf(i))
  /\ ev' = [op |-> "load", inst |-> i, path |-> path, existed |-> FALSE,
            raised |-> TRUE]
  /\ UNCHANGED <<objs, fs, dirs, trainCount, corpus, labels, tree, ret,
                 pc, results, evaluated, csv, axes>>

Next ==
  \/ \E i \in Instances, o \in Outputs, p \in ParamsChoices,
        v \in FitVocabularies : Fit(i, o, p, v)
  \/ \E i \in Instances : FitMissing(i)
  \/ \E i \in Instances, path \in LoadPaths : Load(i, path)
  \/ \E i \in Instances, oc \in AutoLoadOutcomes : LoadAuto(i, OtherPath, oc)
  \/ \E i \in Instances : LoadMissing(i, OtherPath)

Spec == Init /\ [][Next]_vars

(***************************************************************************)
(* sentence_vectors.                                                       *)
(***************************************************************************)
\* What one element of a returned list is: the int 0, a str, a numeric
\* vector, or the pooled tensor of an encoder.
IntElem(n) == [kind |-> "int", val |-> << n >>]
StrElem(s) == [kind |-> "str", val |-> s]
VecElem(v) == [kind |-> "vector", val |-> v]
TensorElem(text) == [kind |-> "tensor", val |-> text]

\* A call's outcome: whether it raised, whether it logged an error, the
\* list it returned.
Returned(out, logged) == [raised |-> FALSE, logged |-> logged, out |-> out]
Raised == [raised |-> TRUE, logged |-> FALSE, out |-> << >>]

\* EmbeddingsModel.sentence_vectors: one 0 per document
BaseSentenceVectors(c) == [i \in 1..Len(c) |-> IntElem(0)]

\* " ".join(sentence)
RECURSIVE JoinSpace(_)
JoinSpace(sentence) ==
  IF sentence = << >> THEN << >>
  ELSE IF Len(sentence) = 1 THEN sentence
  ELSE << Head(sentence), " " >> \o JoinSpace(Tail(sentence))

\* NaiveBayesModel.sentence_vectors
NaiveBayesSentenceVectors(c) ==
  [i \in 1..Len(c) |-> StrElem(JoinSpace(c[i]))]

\* Rationals in lowest terms, the denominator positive.
RECURSIVE Gcd(_, _)
Gcd(a, b) == IF b = 0 THEN a ELSE Gcd(b, a % b)
Abs(a) == IF a < 0 THEN -a ELSE a
Rat(num, den) ==
  LET g == Gcd(Abs(num), den) IN << num \div g, den \div g >>

\* self.model.wv[word]: the vector the trained model holds for a word of
\* its vocabulary.
WordVector(m, word) ==
  [k \in 1..VectorSize |-> IF word = "a" THEN k ELSE -(k + 1)]

\* The known words with each word kept once.
RECURSIVE Dedup(_)
Dedup(ws) ==
  IF ws = << >> THEN << >>
  ELSE << Head(ws) >> \o Dedup(SelectSeq(Tail(ws), LAMBDA w : w # Head(ws)))
KnownWordsOnce(m, sentence) ==
  Dedup(SelectSeq(sentence, LAMBDA w : w \in m.vocab))

\* [word for word in sentence if word in self.model.wv]
KnownWords(m, sentence) == SelectSeq(sentence, LAMBDA w : w \in m.vocab)

RECURSIVE SumAt(_, _, _)
SumAt(m, words, k) ==
  IF words = << >> THEN 0
  ELSE WordVector(m, Head(words))[k] + SumAt(m, Tail(words), k)

\* np.mean(self.model.wv[words], axis=0)
MeanVector(m, words) ==
  [k \in 1..VectorSize |-> Rat(SumAt(m, words, k), Len(words))]

\* np.zeros(self.model.vector_size)
ZeroVector == [k \in 1..VectorSize |-> Rat(0, 1)]

\* The element Word2VecModel.sentence_vectors appends for one sentence.
Word2VecSentence(m, sentence) ==
  LET words == KnownWords(m, sentence)
  IN IF words # << >> THEN VecElem(MeanVector(m, words))
     ELSE VecElem(ZeroVector)

\* Word2VecModel.sentence_vectors
Word2VecSentenceVectors(self, c) ==
  IF self.model = NoneModel
    THEN Returned(BaseSentenceVectors(c), TRUE)
    ELSE Returned([i \in 1..Len(c) |-> Word2VecSentence(self.model, c[i])],
                  FALSE)

\* TransformerModel.sentence_vectors: self.model.eval() comes first and
\* raises on None; otherwise one masked mean-pooled tensor per sentence, a
\* function of the joined text.
TransformerSentenceVectors(self, c) ==
  IF self.model = NoneModel \/ (~self.tokenizer /\ c # << >>)
    THEN Raised
    ELSE Returned([i \in 1..Len(c) |-> TensorElem(JoinSpace(c[i]))], FALSE)

\* instance.sentence_vectors(corpus) by the class of the instance
SentenceVectors(cls, self, c) ==
  CASE cls = "EmbeddingsModel" -> Returned(BaseSentenceVectors(c), FALSE)
    [] cls = "NaiveBayesModel" -> Returned(NaiveBayesSentenceVectors(c), FALSE)
    [] cls = "Word2VecModel" -> Word2VecSentenceVectors(self, c)
    [] cls \in {"TransformerModel", "AutoTransformerModel"} ->
         TransformerSentenceVectors(self, c)

(***************************************************************************)
(* Queries: sentence_vectors called on the objects the life cycle leaves.  *)
(***************************************************************************)
Docs == { << >>, << "c" >>, << "a", "b" >>, << "a", "a", "b" >> }
Corpora == UNION { [1..n -> Docs] : n \in 0..MaxDocs }

QueryOutput == << "o" >>

\* A first fit on an empty file system.
FirstFits ==
  { Word2VecFit(NewWord2VecModel, << >>, {}, QueryOutput, p, v) :
      p \in ParamsChoices, v \in Vocabularies }

\* A fresh instance; an instance after its first fit; a fresh instance
\* whose fit found the artifact of an earlier fit; a fresh instance after
\* load of a path of that file system.
QueryScenarios ==
  { [self |-> NewWord2VecModel, fs |-> << >>, dirs |-> {}] }
    \cup { [self |-> r.self, fs |-> r.fs, dirs |-> r.dirs] : r \in FirstFits }
    \cup UNION { { [self |-> Word2VecFit(NewWord2VecModel, r.fs, r.dirs,
                                         QueryOutput, p, {"a"}).self,
                    fs |-> r.fs, dirs |-> r.dirs] :
                     p \in { q \in ParamsChoices :
                       ArtifactPath(QueryOutput,
                                    NameOfTriple(EffectiveTriple(q)))
                         \in DOMAIN r.fs } } : r \in FirstFits }
    \cup UNION { { [self |-> Word2VecLoad(NewWord2VecModel, r.fs, path),
                    fs |-> r.fs, dirs |-> r.dirs] :
                     path \in DOMAIN r.fs \cup {OtherPath} } : r \in FirstFits }

QueryInstances == Instances \ {"w2"}

InitQuery ==
  /\ \E sc \in QueryScenarios :
       /\ objs = [i \in Instances |->
                    IF i = "w1" THEN sc.self ELSE Construct(i)]
       /\ fs = sc.fs
       /\ dirs = sc.dirs
  /\ corpus \in Corpora
  /\ labels = << >>
  /\ tree = << >>
  /\ ret = Returned(<< >>, FALSE)
  /\ trainCount = [p \in ArtifactPaths |-> 0]
  /\ ev = NoEvent
  /\ IdleDriver

\* sentence_vectors that loads the artifact named after the instance when
\* the model is None: a fit-on-query.
QueryLoading(i) ==
  LET path == ArtifactPath(QueryOutput, objs[i].name)
      self == IF ClassOf(i) = "Word2VecModel" /\ objs[i].model = NoneModel
                   /\ LoadSucceeds(fs, path)
                THEN [objs[i] EXCEPT !.model = fs[path]]
                ELSE objs[i]
  IN /\ ret' = SentenceVectors(ClassOf(i), self, corpus)
     /\ objs' = [objs EXCEPT ![i] = self]
     /\ ev' = [op |-> "sentence_vectors", inst |-> i, path |-> << >>,
               existed |-> FALSE, raised |-> ret'.raised]
     /\ UNCHANGED <<fs, dirs, trainCount, corpus, labels, tree,
                    pc, results, evaluated, csv, axes>>

\* instance.sentence_vectors(corpus)
Query(i) ==
  /\ ret' = SentenceVectors(ClassOf(i), objs[i], corpus)
  /\ ev' = [op |-> "sentence_vectors", inst |-> i, path |-> << >>,
            existed |-> FALSE, raised |-> ret'.raised]
  /\ UNCHANGED <<objs, fs, dirs, trainCount, corpus, labels, tree,
                 pc, results, evaluated, csv, axes>>

\* The same call once more, on the same instance and corpus.
Requery ==
  /\ ev.op \in {"sentence_vectors", "again"}
  /\ ret' = SentenceVectors(ClassOf(ev.inst), objs[ev.inst], corpus)
  /\ ev' = [ev EXCEPT !.op = "again", !.raised = ret'.raised]
  /\ UNCHANGED <<objs, fs, dirs, trainCount, corpus, labels, tree,
                 pc, results, evaluated, csv, axes>>

NextQuery ==
  \/ \E i \in QueryInstances : Query(i)
  \/ Requery

SpecQuery == InitQuery /\ [][NextQuery]_vars

(***************************************************************************)
(* The leaderboard: the results mapping, its sort and the CSV.             *)
(***************************************************************************)
\* A score is kept in hundredths: 100 is 1.0, -100 is -1.0.
Metrics(acc, bal, mcc) == [Accuracy |-> acc, Balanced |-> bal, MCC |-> mcc]

\* The triples (accuracy, balanced accuracy, MCC) a classify returns here.
MetricsChoices ==
  { Metrics(100, 50, 0), Metrics(50, 100, 100), Metrics(100, 50, 100),
    Metrics(100, 100, 0) }

\* results[key] = value on a dict kept as its items in insertion order: an
\* existing key keeps its place and takes the new value.
DictSet(d, key, value) ==
  IF \E i \in 1..Len(d) : d[i].key = key
    THEN [i \in 1..Len(d) |->
            IF d[i].key = key THEN [key |-> key, value |-> value] ELSE d[i]]
    ELSE Append(d, [key |-> key, value |-> value])

\* The sort key with the parameter count negated: larger models first.
LeaderboardKeyLargerFirst(item) ==
  << -item.value.Accuracy, -item.value.Balanced, -item.value.MCC,
     -item.value.Parameters, item.key >>

\* key=lambda item: (-item[1]["Accuracy"], -item[1]["Balanced"],
\*                   -item[1]["MCC"], item[1]["Parameters"], item[0])
LeaderboardKey(item) ==
  << -item.value.Accuracy, -item.value.Balanced, -item.value.MCC,
     item.value.Parameters, item.key >>

\* Python's a < b on two such key tuples: the first unequal component
\* decides.
KeyLess(a, b) ==
  IF a[1] # b[1] THEN a[1] < b[1]
  ELSE IF a[2] # b[2] THEN a[2] < b[2]
  ELSE IF a[3] # b[3] THEN a[3] < b[3]
  ELSE IF a[4] # b[4] THEN a[4] < b[4]
  ELSE StrLess(a[5], b[5])

\* One step of a stable sort: x goes after every item that is not greater.
RECURSIVE InsertByKey(_, _)
InsertByKey(sorted, x) ==
  IF sorted = << >> THEN << x >>
  ELSE IF KeyLess(LeaderboardKey(x), LeaderboardKey(Head(sorted)))
    THEN << x >> \o sorted
    ELSE << Head(sorted) >> \o InsertByKey(Tail(sorted), x)

\* sorted(results.items(), key=...): stable, ascending in the key.
RECURSIVE SortedItems(_)
SortedItems(items) ==
  IF items = << >> THEN << >>
  ELSE InsertByKey(SortedItems(SubSeq(items, 1, Len(items) - 1)),
                   items[Len(items)])

\* The rows written below the header of _Classification.csv: one per key
\* of the mapping, in its order.
LeaderboardRows(d) ==
  [i \in 1..Len(d) |->
     [Model |-> d[i].key, Accuracy |-> d[i].value.Accuracy,
      Balanced |-> d[i].value.Balanced, MCC |-> d[i].value.MCC]]

NoCsv == [written |-> FALSE, rows |-> << >>]

\* f"{w2v_standard.name} - Standard"
StandardKey(name) ==
  name \o << " ", "-", " ", "S", "t", "a", "n", "d", "a", "r", "d" >>

\* evaluate_model's return value for a model with these parameters
Evaluation(m, parameters) ==
  [Accuracy |-> m.Accuracy, Balanced |-> m.Balanced, MCC |-> m.MCC,
   Parameters |-> parameters]

\* The models a leaderboard can name, with their parameter counts.
LeaderboardModels ==
  { [key |-> NewNaiveBayesModel.name,
     parameters |-> NewNaiveBayesModel.parameters],
    [key |-> NewMiniTransformerModel.name,
     parameters |-> NewMiniTransformerModel.parameters],
    [key |-> NewE5TransformerModel.name,
     parameters |-> NewE5TransformerModel.parameters],
    [key |-> StandardKey(NameOfTriple(EffectiveTriple(<< >>))),
     parameters |-> NewWord2VecModel.parameters],
    [key |-> DerivedName(FloatVal(10), IntVal(5), IntVal(5)),
     parameters |-> NewWord2VecModel.parameters] }

InitLeaderboard ==
  /\ pc = "collect"
  /\ results = << >>
  /\ csv = NoCsv
  /\ evaluated = << >>
  /\ axes = << >>
  /\ objs = << >>
  /\ fs = << >>
  /\ dirs = {}
  /\ trainCount = << >>
  /\ ev = NoEvent
  /\ IdleQuery

\* results[name] = evaluate_model(...)
Store(model, m) ==
  /\ pc = "collect"
  /\ \/ Len(results) < MaxRows
     \/ \E i \in 1..Len(results) : results[i].key = model.key
  /\ results' = DictSet(results, model.key, Evaluation(m, model.parameters))
  /\ UNCHANGED <<pc, csv, evaluated, axes, objs, fs, dirs, trainCount, ev,
                 corpus, labels, tree, ret>>

\* Lines 80-89: results is rebound to its sorted items and the CSV is
\* written from it.
SortAndWrite ==
  /\ pc = "collect"
  /\ results' = SortedItems(results)
  /\ csv' = [written |-> TRUE, rows |-> LeaderboardRows(results')]
  /\ pc' = "done"
  /\ UNCHANGED <<evaluated, axes, objs, fs, dirs, trainCount, ev,
                 corpus, labels, tree, ret>>

NextLeaderboard ==
  \/ \E model \in LeaderboardModels, m \in MetricsChoices : Store(model, m)
  \/ SortAndWrite

SpecLeaderboard == InitLeaderboard /\ [][NextLeaderboard]_vars

(***************************************************************************)
(* The driver fit_best.                                                    *)
(***************************************************************************)
\* "Embeddings", and output = os.path.join("Embeddings", basename) for the
\* directory "d".
EmbeddingsDir == << "E", "m", "b", "e", "d", "d", "i", "n", "g", "s" >>
DriverOutput == PathJoin(EmbeddingsDir, << "d" >>)

ClassificationDir(output) ==
  PathJoin(output, << "C", "l", "a", "s", "s", "i", "f", "i", "c", "a", "t",
                      "i", "o", "n" >>)
ReportDir(output) ==
  PathJoin(ClassificationDir(output),
           << "C", "l", "a", "s", "s", "i", "f", "i", "c", "a", "t", "i",
              "o", "n", " ", "R", "e", "p", "o", "r", "t" >>)
ConfusionDir(output) ==
  PathJoin(ClassificationDir(output),
           << "C", "o", "n", "f", "u", "s", "i", "o", "n", " ", "M", "a",
              "t", "r", "i", "x" >>)
CsvName(name) == name \o << ".", "c", "s", "v" >>

(***************************************************************************)
(* EmbeddingsModel.classify.                                               *)
(***************************************************************************)
\* LabelEncoder: classes_ is the distinct labels in ascending order, a
\* label is encoded as its position in it counted from 0.
RECURSIVE SortedLabels(_)
SortedLabels(set) ==
  IF set = {} THEN << >>
  ELSE LET least == CHOOSE l \in set : \A o \in set : o = l \/ StrLess(l, o)
       IN << least >> \o SortedLabels(set \ {least})

LabelClasses(ls) == SortedLabels({ ls[i] : i \in 1..Len(ls) })

\* label_encoder.transform([label])[0]
Encode(classes, label) ==
  (CHOOSE i \in 1..Len(classes) : classes[i] = label) - 1

\* A decoding that counts the classes from the last one.
DecodeFromLast(classes, i) == classes[Len(classes) - i]

\* label_encoder.inverse_transform([i])[0]
Decode(classes, i) == classes[i + 1]

\* train_test_split(test_size=0.2): the test part has ceil(0.2 n) samples,
\* the train part the others.
NTest(n) == (n + 4) \div 5
NTrain(n) == n - NTest(n)

\* Whether classify gets past train_test_split: with no sample in the
\* train part the split raises ValueError.
SplitSucceeds(c) == NTrain(Len(c)) >= 1

\* The test parts a split can take, one for each random state.
TestSets(n) == { t \in SUBSET (1..n) : Cardinality(t) = NTest(n) }

\* The classifier the harness is handed: NaiveBayesModel.classify passes
\* MultinomialNB() whatever it was given, the other classes inherit classify
\* and pass what they were given.
HarnessClassifier(cls, classifier) ==
  IF cls = "NaiveBayesModel" THEN "MultinomialNB" ELSE classifier

\* The harness with the TF-IDF step taken whatever classifier it was handed.
TfidfRunsAlways(classifier) == TRUE

\* Lines 74-81: the else branch, with TfidfVectorizer, is taken when a
\* classifier was passed.
TfidfRuns(classifier) == classifier # "None"

\* Line 75: the default classifier.
ClassifierUsed(classifier) ==
  IF classifier = "None" THEN "LogisticRegression" ELSE classifier

\* TfidfVectorizer.fit_transform(x_train) returns: every sample is a str
\* and some train sample has a token.
TfidfSucceeds(x, train) ==
  /\ \A i \in 1..Len(x) : x[i].kind = "str"
  /\ \E i \in train : x[i].val # << >>

\* classifier.fit(x_train, y_train) returns: the samples are rows of numbers
\* (vectors, tensors or TF-IDF rows), and LogisticRegression has two
\* classes to tell apart.
FitSucceeds(classifier, tfidf, x, y, train) ==
  /\ tfidf \/ \A i \in 1..Len(x) : x[i].kind \in {"vector", "tensor"}
  /\ classifier = "LogisticRegression" =>
       Cardinality({ y[i] : i \in train }) >= 2

\* The predictions classifier.predict(x_test) can make: a class seen in
\* training for every test sample.
Predictions(y, train, test) == [test -> { y[i] : i \in train }]

RECURSIVE SumFun(_, _)
SumFun(fn, k) == IF k < 0 THEN 0 ELSE fn[k] + SumFun(fn, k - 1)

RECURSIVE ProdFun(_, _)
ProdFun(fn, k) == IF k < 0 THEN 1 ELSE fn[k] * ProdFun(fn, k - 1)

\* How many test samples have true class t and predicted class q.
Cell(y, pred, test, t, q) ==
  Cardinality({ i \in test : y[i] = t /\ pred[i] = q })

\* How many test samples have true class t; how many are predicted q.
TrueCount(y, test, t) == Cardinality({ i \in test : y[i] = t })
PredCount(pred, test, q) == Cardinality({ i \in test : pred[i] = q })

\* The number of correct predictions, where a fraction belongs.
CorrectCount(y, pred, test) ==
  << Cardinality({ i \in test : pred[i] = y[i] }), 1 >>

\* accuracy_score(y_test, pred)
AccuracyScore(y, pred, test) ==
  Rat(Cardinality({ i \in test : pred[i] = y[i] }), Cardinality(test))

\* balanced_accuracy_score(y_test, pred): the mean, over the classes with a
\* test sample, of the recall of the class; the recalls are brought to the
\* product of their denominators.
BalancedAccuracyScore(y, pred, test, n) ==
  LET support == [c \in 0..(n - 1) |->
                    IF TrueCount(y, test, c) = 0 THEN 1
                    ELSE TrueCount(y, test, c)]
      common == ProdFun(support, n - 1)
      recall == [c \in 0..(n - 1) |->
                   Cell(y, pred, test, c, c) * (common \div support[c])]
      classes == Cardinality({ y[i] : i \in test })
  IN Rat(SumFun(recall, n - 1), common * classes)

\* matthews_corrcoef(y_test, pred), as the numerator and the square of the
\* denominator of the quotient it returns; 0 when the denominator is 0.
MatthewsCorrcoef(y, pred, test, n) ==
  LET samples == Cardinality(test)
      correct == Cardinality({ i \in test : pred[i] = y[i] })
      tp == [c \in 0..(n - 1) |->
               TrueCount(y, test, c) * PredCount(pred, test, c)]
      pp == [c \in 0..(n - 1) |->
               PredCount(pred, test, c) * PredCount(pred, test, c)]
      tt == [c \in 0..(n - 1) |->
               TrueCount(y, test, c) * TrueCount(y, test, c)]
      covYtYp == correct * samples - SumFun(tp, n - 1)
      covYpYp == samples * samples - SumFun(pp, n - 1)
      covYtYt == samples * samples - SumFun(tt, n - 1)
  IN IF covYpYp * covYtYt = 0 THEN [num |-> 0, den2 |-> 1]
     ELSE [num |-> covYtYp, den2 |-> covYpYp * covYtYt]

\* The classes confusion_matrix and classification_report find: those of
\* the test labels and of the predictions, ascending.
RECURSIVE Ascending(_)
Ascending(set) ==
  IF set = {} THEN << >>
  ELSE LET least == CHOOSE c \in set : \A o \in set : c <= o
       IN << least >> \o Ascending(set \ {least})

FoundClasses(y, pred, test) ==
  Ascending({ y[i] : i \in test } \cup { pred[i] : i \in test })

\* confusion_matrix(y_test, pred): a row and a column per found class.
ConfusionMatrix(y, pred, test) ==
  LET found == FoundClasses(y, pred, test)
  IN [r \in 1..Len(found) |->
        [c \in 1..Len(found) |-> Cell(y, pred, test, found[r], found[c])]]

\* The row names of the report after df.rename(index=report_index): the
\* found classes decoded, then the three summary rows.
ReportRows(classes, y, pred, test) ==
  LET found == FoundClasses(y, pred, test)
  IN [r \in 1..Len(found) |-> Decode(classes, found[r])]
       \o << << "A", "c", "c", "u", "r", "a", "c", "y" >>,
             << "M", "a", "c", "r", "o", " ", "A", "v", "e", "r", "a", "g",
                "e" >>,
             << "W", "e", "i", "g", "h", "t", "e", "d", " ", "A", "v", "e",
                "r", "a", "g", "e" >> >>

\* confusion_entries: every class of the encoder, decoded.
ConfusionEntries(classes) ==
  [i \in 1..Len(classes) |-> Decode(classes, i - 1)]

\* pd.DataFrame(cf, index=confusion_entries, columns=confusion_entries)
\* returns: the matrix has as many rows as there are entries.
FrameSucceeds(matrix, entries) == Len(matrix) = Len(entries)

\* os.mkdir called whether or not the folder exists.
NeedsMkdirAlways(d, path) == TRUE

\* if not os.path.exists(path): os.mkdir(path)
NeedsMkdir(d, path) == path \notin d

\* The folder a path is in exists: the working directory for a path
\* without separator, the path before the last separator otherwise.
ParentExists(d, path) ==
  LET slashes == IndexesOf(path, "/")
  IN \/ slashes = {}
     \/ SubSeq(path, 1, (CHOOSE i \in slashes : \A j \in slashes : i >= j) - 1)
          \in d

\* The guarded os.mkdir raises: os.mkdir is called on a folder that exists
\* (FileExistsError) or whose parent is missing (FileNotFoundError).
MkdirRaises(d, path) ==
  NeedsMkdir(d, path) /\ (path \in d \/ ~ParentExists(d, path))

MetricCsv(m) == [kind |-> "csv", rows |-> m]
ReportCsv(rows) == [kind |-> "csv", rows |-> rows]
ConfusionCsv(entries, matrix) ==
  [kind |-> "csv", rows |-> [index |-> entries, cells |-> matrix]]

\* The folders of lines 92-96, 112-114 and 119-121, in the order of the
\* code.
PersistDirs(output) ==
  << output, ClassificationDir(output), ReportDir(output),
     ConfusionDir(output) >>

\* Lines 91-123: the folders and the three files.  Folder k is made once
\* the k - 1 before it are there; the metric CSV follows the second folder,
\* the report CSV the third, and the frame of the confusion matrix and its
\* CSV the fourth.  stop is the first folder whose os.mkdir raises, 5 when
\* none does.
Persist(f, d, output, name, m, report, matrix, entries) ==
  LET paths == PersistDirs(output)
      raising == { k \in 1..4 :
                     MkdirRaises(d \cup { paths[j] : j \in 1..(k - 1) },
                                 paths[k]) }
      stop == IF raising = {} THEN 5
              ELSE CHOOSE k \in raising : \A j \in raising : k <= j
      framed == stop = 5 /\ FrameSucceeds(matrix, entries)
      metricPath == PathJoin(paths[2], CsvName(name))
      reportPath == PathJoin(paths[3], CsvName(name))
      confusionPath == PathJoin(paths[4], CsvName(name))
      written == (IF stop > 2 THEN {metricPath} ELSE {})
                   \cup (IF stop > 3 THEN {reportPath} ELSE {})
                   \cup (IF framed THEN {confusionPath} ELSE {})
  IN [raised |-> ~framed,
      dirs |-> d \cup { paths[j] : j \in 1..(stop - 1) },
      fs |-> [q \in DOMAIN f \cup written |->
                IF q \notin written THEN f[q]
                ELSE IF q = metricPath THEN MetricCsv(m)
                ELSE IF q = reportPath THEN ReportCsv(report)
                ELSE ConfusionCsv(entries, matrix)]]

NoMetrics == Metrics(Rat(0, 1), Rat(0, 1), [num |-> 0, den2 |-> 1])

\* How far classify gets before classifier.predict: the line that raises,
\* or "ok".
Prepare(cls, self, c, ls, classifier, test) ==
  LET sv == SentenceVectors(cls, self, c)
      handed == HarnessClassifier(cls, classifier)
      classes == LabelClasses(ls)
      y == [i \in 1..Len(ls) |-> Encode(classes, ls[i])]
      train == (1..Len(c)) \ test
  IN IF sv.raised THEN "sentence_vectors"
     ELSE IF ~SplitSucceeds(sv.out) THEN "split"
     ELSE IF TfidfRuns(handed) /\ ~TfidfSucceeds(sv.out, train) THEN "tfidf"
     ELSE IF ~FitSucceeds(ClassifierUsed(handed), TfidfRuns(handed), sv.out,
                          y, train)
       THEN "fit"
     ELSE "ok"

\* instance.classify(corpus, labels, output, seed, classifier) on the files
\* f and folders d, where the split takes test as the test part and the
\* classifier predicts pred: whether it raised and at which step, whether
\* an error was logged, the branch taken, what it returns and what it
\* leaves on disk.
Classify(cls, self, c, ls, classifier, test, pred, f, d, output) ==
  LET sv == SentenceVectors(cls, self, c)
      handed == HarnessClassifier(cls, classifier)
      classes == LabelClasses(ls)
      y == [i \in 1..Len(ls) |-> Encode(classes, ls[i])]
      at == Prepare(cls, self, c, ls, classifier, test)
      reached == at \notin {"sentence_vectors", "split"}
      base == [raised |-> TRUE, at |-> at,
               logged |-> IF sv.raised THEN FALSE ELSE sv.logged,
               tfidf |-> reached /\ TfidfRuns(handed),
               classifier |-> IF reached THEN ClassifierUsed(handed) ELSE "",
               fitted |-> FALSE, classes |-> << >>, metrics |-> NoMetrics,
               report |-> << >>, entries |-> << >>, fs |-> f, dirs |-> d]
  IN IF at # "ok" THEN base
     ELSE LET n == Len(classes)
              m == Metrics(AccuracyScore(y, pred, test),
                           BalancedAccuracyScore(y, pred, test, n),
                           MatthewsCorrcoef(y, pred, test, n))
              report == ReportRows(classes, y, pred, test)
              matrix == ConfusionMatrix(y, pred, test)
              entries == ConfusionEntries(classes)
              w == Persist(f, d, output, self.name, m, report, matrix,
                           entries)
          IN [base EXCEPT !.raised = w.raised,
                          !.at = IF w.raised THEN "persist" ELSE "",
                          !.fitted = TRUE, !.classes = classes,
                          !.metrics = m, !.report = report,
                          !.entries = entries, !.fs = w.fs, !.dirs = w.dirs]

\* The test parts to choose from: none when the split raises.
SplitChoices(c) == IF SplitSucceeds(c) THEN TestSets(Len(c)) ELSE {{}}

\* The predictions to choose from: none when classify raises before it
\* predicts.
PredChoices(cls, self, c, ls, classifier, test) ==
  IF Prepare(cls, self, c, ls, classifier, test) = "ok"
    THEN LET classes == LabelClasses(ls)
             y == [i \in 1..Len(ls) |-> Encode(classes, ls[i])]
         IN Predictions(y, (1..Len(c)) \ test, test)
    ELSE { << >> }

\* evaluate_model(model, corpus, labels, output, seed): classify without a
\* classifier, and the dict made of its return value.
EvaluateModel(cls, self, c, ls, test, pred, f, d, output) ==
  LET r == Classify(cls, self, c, ls, "None", test, pred, f, d, output)
  IN [classify |-> r,
      evaluation |-> IF r.raised THEN << >>
                     ELSE Evaluation(r.metrics, self.parameters)]

\* An argument of fit_best for one axis: a scalar or a list.
Scalar(v) == [list |-> FALSE, vals |-> << v >>]
List(vs) == [list |-> TRUE, vals |-> vs]
AxisChoices(values) ==
  { Scalar(v) : v \in values }
    \cup { List(vs) : vs \in UNION { [1..n -> values] : n \in 0..MaxAxis } }

DriverAlphas == {FloatVal(25), FloatVal(10), FloatVal(20)}
DriverWindows == {IntVal(5)}
DriverNegatives == {IntVal(5)}

\* The corpus and labels load_data returns: empty when the directory is
\* missing or holds no readable file.
DriverData ==
  { [corpus |-> << >>, labels |-> << >>],
    [corpus |-> << << "a", "b" >>, << "c" >>, << "a", "a", "b" >> >>,
     labels |-> << << "m", "a", "t", "h" >>, << "c", "s" >>,
                   << "m", "a", "t", "h" >> >>] }
DriverCorpora == { data.corpus : data \in DriverData }

\* The positional arguments Word2VecModel.__init__(self) takes beyond self.
Word2VecInitArity == 0
ConstructorAccepts(nargs) == nargs = Word2VecInitArity

InitFitBest ==
  /\ pc = "start"
  /\ axes \in [alphas : AxisChoices(DriverAlphas),
               windows : AxisChoices(DriverWindows),
               negatives : AxisChoices(DriverNegatives)]
  /\ \E data \in DriverData :
       /\ corpus = data.corpus
       /\ labels = data.labels
  /\ tree = << >>
  /\ results = << >>
  /\ evaluated = << >>
  /\ csv = NoCsv
  /\ objs = << >>
  /\ fs = << >>
  /\ dirs = {}
  /\ trainCount = << >>
  /\ ev = NoEvent
  /\ ret = << >>

\* Lines 43-50: the output folder, load_data, results = {}.
Start ==
  /\ pc = "start"
  /\ dirs' = dirs \cup {EmbeddingsDir}
  /\ results' = << >>
  /\ pc' = "nb"
  /\ UNCHANGED <<objs, fs, trainCount, ev, corpus, labels, tree, ret,
                 evaluated, csv, axes>>

\* results[key] = evaluate_model(model, corpus, labels, output, seed) for
\* the object built as local variable id: when classify raises, fit_best
\* ends with what classify had written; otherwise the dict is stored.
Evaluate(id, cls, model, key, test, pred, next) ==
  /\ objs' = (id :> model) @@ objs
  /\ \E e \in { EvaluateModel(cls, model, corpus, labels, test, pred, fs,
                                dirs, DriverOutput) } :
        /\ fs' = e.classify.fs
        /\ dirs' = e.classify.dirs
        /\ IF e.classify.raised
             THEN /\ pc' = "raised"
                  /\ UNCHANGED <<results, evaluated>>
             ELSE /\ results' = DictSet(results, key, e.evaluation)
                  /\ evaluated' = Append(evaluated, key)
                  /\ pc' = next
  /\ UNCHANGED <<trainCount, ev, corpus, labels, tree, ret, csv, axes>>

\* Lines 51-53.
EvalNaiveBayes(test, pred) ==
  /\ pc = "nb"
  /\ pred \in PredChoices("NaiveBayesModel", NewNaiveBayesModel, corpus,
                          labels, "None", test)
  /\ Evaluate("nb", "NaiveBayesModel", NewNaiveBayesModel,
              NewNaiveBayesModel.name, test, pred, "mini")

\* A constructor of a pretrained model raised in from_pretrained.
PretrainedRaises ==
  /\ pc \in {"mini", "e5"}
  /\ pc' = "raised"
  /\ UNCHANGED <<objs, fs, dirs, trainCount, ev, corpus, labels, tree, ret,
                 results, evaluated, csv, axes>>

\* Lines 54-56.
EvalMini(test, pred) ==
  /\ pc = "mini"
  /\ pred \in PredChoices("AutoTransformerModel", NewMiniTransformerModel,
                          corpus, labels, "None", test)
  /\ Evaluate("mini", "AutoTransformerModel", NewMiniTransformerModel,
              NewMiniTransformerModel.name, test, pred, "e5")

\* Lines 57-59.
EvalE5(test, pred) ==
  /\ pc = "e5"
  /\ pred \in PredChoices("AutoTransformerModel", NewE5TransformerModel,
                          corpus, labels, "None", test)
  /\ Evaluate("e5", "AutoTransformerModel", NewE5TransformerModel,
              NewE5TransformerModel.name, test, pred, "standard")

\* Line 61: Word2VecModel(corpus, output, seed) hands three positional
\* arguments to an __init__ that takes none: TypeError.  Nothing of
\* fit_best after this line is reached.
ConstructStandard ==
  /\ pc = "standard"
  /\ ~ConstructorAccepts(3)
  /\ pc' = "raised"
  /\ UNCHANGED <<objs, fs, dirs, trainCount, ev, corpus, labels, tree, ret,
                 results, evaluated, csv, axes>>

\* The predictions of the runs of fit_best.
DriverPredictions ==
  UNION { [t -> 0..1] : t \in SUBSET (1..MaxDocs) }

NextFitBest ==
  \/ Start
  \/ \E test \in SplitChoices(corpus), pred \in DriverPredictions :
       EvalNaiveBayes(test, pred)
  \/ PretrainedRaises
  \/ \E test \in SplitChoices(corpus), pred \in DriverPredictions :
       EvalMini(test, pred)
  \/ \E test \in SplitChoices(corpus), pred \in DriverPredictions :
       EvalE5(test, pred)
  \/ ConstructStandard

SpecFitBest == InitFitBest /\ [][NextFitBest]_vars

(***************************************************************************)
(* load_data: the walk of the directory.                                   *)
(***************************************************************************)
\* The folders os.walk visits below the directory "d", each with its path
\* and its own name.
FolderChoices ==
  { [path |-> << "d" >>, name |-> << "d" >>],
    [path |-> << "d", "/", "c", "s" >>, name |-> << "c", "s" >>],
    [path |-> << "d", "/", "c", "s", "/", "a", "i" >>, name |-> << "a", "i" >>],
    [path |-> << "d", "/", "m", "a", "t", "h" >>,
     name |-> << "m", "a", "t", "h" >>] }

\* A file of the walk: the folder os.walk reports it in, whether open and
\* read succeed, and the tokens simple_preprocess makes of its text.
WalkFiles ==
  [folder : { fc.path : fc \in FolderChoices }, readable : BOOLEAN,
   tokens : { << >>, << "a", "b" >> }]

\* The directory handed to load_data: missing, or the files of its tree in
\* the order of the walk; done counts the files the loop has been through.
NoDirectory == [exists |-> FALSE, files |-> << >>, done |-> 0]
Directory(files) == [exists |-> TRUE, files |-> files, done |-> 0]
Directories ==
  {NoDirectory}
    \cup { Directory(files) :
             files \in UNION { [1..n -> WalkFiles] : n \in 0..MaxFiles } }

\* One pass of the loop body with the label appended before the file is
\* opened.
LoadStepLabelFirst(c, l, file) ==
  IF file.readable
    THEN [corpus |-> Append(c, file.tokens),
          labels |-> Append(l, Basename(file.folder))]
    ELSE [corpus |-> c, labels |-> Append(l, Basename(file.folder))]

\* One pass of the loop body, lines 25-34: both appends follow the read
\* inside the try, so a failure to open or read appends nothing.
LoadStep(c, l, file) ==
  IF file.readable
    THEN [corpus |-> Append(c, file.tokens),
          labels |-> Append(l, Basename(file.folder))]
    ELSE [corpus |-> c, labels |-> l]

InitLoadData ==
  /\ pc = "load_data"
  /\ tree \in Directories
  /\ corpus = << >>
  /\ labels = << >>
  /\ ret = << >>
  /\ objs = << >>
  /\ fs = << >>
  /\ dirs = {}
  /\ trainCount = << >>
  /\ ev = NoEvent
  /\ results = << >>
  /\ evaluated = << >>
  /\ csv = NoCsv
  /\ axes = << >>

\* Lines 17-19: the directory does not exist.
ReturnMissing ==
  /\ pc = "load_data"
  /\ ~tree.exists
  /\ corpus' = << >>
  /\ labels' = << >>
  /\ pc' = "loaded"
  /\ UNCHANGED <<objs, fs, dirs, trainCount, ev, tree, ret, results,
                 evaluated, csv, axes>>

\* Lines 23-34 for the next file of the walk.
ReadFile ==
  /\ pc = "load_data"
  /\ tree.exists
  /\ tree.done < Len(tree.files)
  /\ LET r == LoadStep(corpus, labels, tree.files[tree.done + 1])
     IN /\ corpus' = r.corpus
        /\ labels' = r.labels
  /\ tree' = [tree EXCEPT !.done = @ + 1]
  /\ UNCHANGED <<objs, fs, dirs, trainCount, ev, ret, pc, results,
                 evaluated, csv, axes>>

\* Line 35.
ReturnLoaded ==
  /\ pc = "load_data"
  /\ tree.exists
  /\ tree.done = Len(tree.files)
  /\ pc' = "loaded"
  /\ UNCHANGED <<objs, fs, dirs, trainCount, ev, corpus, labels, tree, ret,
                 results, evaluated, csv, axes>>

NextLoadData ==
  \/ ReturnMissing
  \/ ReadFile
  \/ ReturnLoaded

SpecLoadData == InitLoadData /\ [][NextLoadData]_vars

(***************************************************************************)
(* classify and evaluate_model called on the strategy objects.             *)
(***************************************************************************)
ClassifyOutput == << "o" >>

LabelCs == << "c", "s" >>
LabelMath == << "m", "a", "t", "h" >>
LabelStat == << "s", "t", "a", "t" >>

\* Well-formed inputs: a corpus and as many labels.  The small ones take
\* the corpora of empty documents and of two-token documents with every
\* labelling by two classes; the large one has 2 * MaxDocs documents of
\* three classes in turn, so that the test part has two samples.
ClassifyDocs == { << >>, << "a", "b" >> }
SmallData ==
  UNION { { [corpus |-> [i \in 1..n |-> doc], labels |-> l] :
              doc \in ClassifyDocs,
              l \in [1..n -> {LabelCs, LabelMath}] } : n \in 0..MaxDocs }
LargeData ==
  { [corpus |-> [i \in 1..(2 * MaxDocs) |-> << "a", "b" >>],
     labels |-> [i \in 1..(2 * MaxDocs) |->
                   << LabelCs, LabelMath, LabelStat >>[(i % 3) + 1]]] }
ClassifyData == SmallData \cup LargeData

\* The folders of classify under the output that can be there before the
\* call: a folder is there only with the folder it is in.
StartDirs ==
  { d \in SUBSET { PersistDirs(ClassifyOutput)[k] : k \in 1..4 } :
      \A p \in d : ParentExists(d, p) }

\* The word-vector instance: fresh, or after a fit under another output.
ClassifyScenarios ==
  { [self |-> NewWord2VecModel, fs |-> << >>, dirs |-> {}] }
    \cup { [self |-> r.self, fs |-> r.fs, dirs |-> r.dirs] :
             r \in { Word2VecFit(NewWord2VecModel, << >>, {}, << "p" >>,
                                 << >>, {"a"}) } }

ClassifyInstances == Instances \ {"w2"}
ClassifierArgs == {"None", "MultinomialNB"}

NoResult == [classify |-> << >>, evaluation |-> << >>]

InitClassify ==
  /\ \E sc \in ClassifyScenarios, start \in StartDirs :
       /\ objs = [i \in Instances |->
                    IF i = "w1" THEN sc.self ELSE Construct(i)]
       /\ fs = sc.fs
       /\ dirs = sc.dirs \cup start
  /\ \E data \in ClassifyData :
       /\ corpus = data.corpus
       /\ labels = data.labels
  /\ tree = << >>
  /\ ret = NoResult
  /\ trainCount = << >>
  /\ ev = NoEvent
  /\ IdleDriver

\* instance.classify(corpus, labels, output, seed, classifier), the split
\* taking test as the test part and the classifier predicting pred.
ClassifyCall(i, classifier, test) ==
  /\ ev.op = "init"
  /\ \E pred \in PredChoices(ClassOf(i), objs[i], corpus, labels, classifier,
                              test) :
       \E r \in { Classify(ClassOf(i), objs[i], corpus, labels, classifier,
                            test, pred, fs, dirs, ClassifyOutput) } :
         /\ ret' = [classify |-> r, evaluation |-> << >>]
         /\ fs' = r.fs
         /\ dirs' = r.dirs
         /\ ev' = [op |-> "classify", inst |-> i, classifier |-> classifier,
                   test |-> test, pred |-> pred, raised |-> r.raised,
                   fs |-> fs, dirs |-> dirs, start |-> dirs]
  /\ UNCHANGED <<objs, trainCount, corpus, labels, tree, pc, results,
                 evaluated, csv, axes>>

\* evaluate_model(instance, corpus, labels, output, seed)
EvaluateCall(i, test) ==
  /\ ev.op = "init"
  /\ \E pred \in PredChoices(ClassOf(i), objs[i], corpus, labels, "None",
                              test) :
       \E e \in { EvaluateModel(ClassOf(i), objs[i], corpus, labels, test,
                                 pred, fs, dirs, ClassifyOutput) } :
         /\ ret' = e
         /\ fs' = e.classify.fs
         /\ dirs' = e.classify.dirs
         /\ ev' = [op |-> "evaluate_model", inst |-> i,
                   classifier |-> "None", test |-> test, pred |-> pred,
                   raised |-> e.classify.raised, fs |-> fs, dirs |-> dirs,
                   start |-> dirs]
  /\ UNCHANGED <<objs, trainCount, corpus, labels, tree, pc, results,
                 evaluated, csv, axes>>

\* classify once more with the same arguments: the same seed gives the same
\* split and the same predictions.
ClassifyAgain ==
  /\ ev.op \in {"classify", "evaluate_model"}
  /\ \E r \in { Classify(ClassOf(ev.inst), objs[ev.inst], corpus, labels,
                         ev.classifier, ev.test, ev.pred, fs, dirs,
                         ClassifyOutput) } :
       /\ ret' = [classify |-> r, evaluation |-> << >>]
       /\ fs' = r.fs
       /\ dirs' = r.dirs
       /\ ev' = [ev EXCEPT !.op = "again", !.raised = r.raised,
                           !.fs = fs, !.dirs = dirs]
  /\ UNCHANGED <<objs, trainCount, corpus, labels, tree, pc, results,
                 evaluated, csv, axes>>

NextClassify ==
  \/ \E i \in ClassifyInstances, classifier \in ClassifierArgs,
        test \in SplitChoices(corpus) :
       ClassifyCall(i, classifier, test)
  \/ \E i \in ClassifyInstances, test \in SplitChoices(corpus) :
       EvaluateCall(i, test)
  \/ ClassifyAgain

SpecClassify == InitClassify /\ [][NextClassify]_vars

(***************************************************************************)
(* create_training_set.  Paths are sequences of components here: the       *)
(* directory, a folder in it, a file name.                                 *)
(***************************************************************************)
TrainingSource == << "d" >>

\* training = f"{directory}_training"
TrainingOf(directory) == << directory[1] \o "_training" >>

\* categories when None is passed: the computer science categories, of
\* which the folders of the model hold two.
DefaultCategories == {"cs.AI", "cs.LG"}
NoCategories == [given |-> FALSE, list |-> {}]
Categories(list) == [given |-> TRUE, list |-> list]
CategoriesOf(categories) ==
  IF ~categories.given THEN DefaultCategories ELSE categories.list

\* The folders a file of the directory can be in.
SourceFolders == {"cs.AI", "cs.LG", "math.AG"}
SourceTrees == UNION { [1..n -> SourceFolders] : n \in 0..MaxFiles }

FileName(k) == << "f", k >>
SourcePath(directory, folder, k) == directory \o << folder >> \o FileName(k)

\* Lines 44-48: the files of the folders named like a category.
TrainingCorpus(files, categories) ==
  { k \in 1..Len(files) : files[k] \in CategoriesOf(categories) }

\* size given as a float in thousandths, as an int, or as something else.
FloatSize(milli) == [type |-> "float", val |-> milli]
IntSize(n) == [type |-> "int", val |-> n]
OtherSize == [type |-> "other", val |-> 0]
Sizes ==
  { FloatSize(m) : m \in {-500, 0, 100, 500, 1000, 1500} }
    \cup { IntSize(n) : n \in (-1)..(MaxFiles + 1) }
    \cup { OtherSize }

\* A float check that lets 0 and negative sizes through.
FloatSizeAtMostOne(milli) == milli <= 1000

\* Line 53, negated: the float is in (0, 1].
FloatSizeValid(milli) == ~(milli <= 0 \/ milli > 1000)

\* Line 58, negated: the int is in (0, total].
IntSizeValid(n, total) == ~(n <= 0 \/ n > total)

\* Lines 52-63: whether the size is refused, with an error logged.
SizeRefused(size, total) ==
  CASE size.type = "float" -> ~FloatSizeValid(size.val)
    [] size.type = "int" -> ~IntSizeValid(size.val, total)
    [] OTHER -> TRUE

\* The number of files to sample: math.ceil(len(corpus) * size) for a
\* float, the size itself for an int.
SampleSize(size, total) ==
  IF size.type = "float" THEN (total * size.val + 999) \div 1000
  ELSE size.val

\* random.sample(corpus, size) raises ValueError for a size that is
\* negative or larger than the population.
SampleRaises(k, total) == k < 0 \/ k > total

\* Lines 67-85: the training folder, the folder of each sampled file under
\* it, and the copies.
CopiedDirs(directory, files, sample) ==
  { TrainingOf(directory) }
    \cup { TrainingOf(directory) \o << files[k] >> : k \in sample }
CopiedFiles(f, directory, files, sample) ==
  LET copies == { SourcePath(TrainingOf(directory), files[k], k) :
                    k \in sample }
  IN [q \in DOMAIN f \cup copies |->
        IF q \in copies
          THEN f[SourcePath(directory, q[2], q[4])]
          ELSE f[q]]

InitTrainingSet ==
  /\ \E files \in SourceTrees, exists \in BOOLEAN, training \in BOOLEAN :
       /\ tree = [exists |-> exists,
                  files |-> IF exists THEN files ELSE << >>]
       /\ dirs = (IF exists
                    THEN {TrainingSource}
                           \cup { TrainingSource \o << files[k] >> :
                                    k \in 1..Len(files) }
                    ELSE {})
                   \cup (IF training THEN {TrainingOf(TrainingSource)} ELSE {})
       /\ fs = IF exists
                 THEN [q \in { SourcePath(TrainingSource, files[k], k) :
                                 k \in 1..Len(files) } |->
                         [kind |-> "text", doc |-> q[4]]]
                 ELSE << >>
  /\ objs = << >>
  /\ trainCount = << >>
  /\ ev = NoEvent
  /\ corpus = << >>
  /\ labels = << >>
  /\ ret = << >>
  /\ IdleDriver

\* The event of a call and what it returned.
TrainingEvent(size, categories, sample) ==
  [op |-> "create_training_set", inst |-> "", path |-> TrainingSource,
   existed |-> TrainingSource \in dirs, raised |-> FALSE, size |-> size,
   categories |-> categories, sample |-> sample,
   training |-> TrainingOf(TrainingSource) \in dirs]

\* create_training_set(directory, size, seed, categories): the early
\* returns with an error logged, or the sample and the copies.
CreateTrainingSet(size, categories) ==
  /\ pc \in {"idle", "called"}
  /\ pc' = IF pc = "idle" THEN "called" ELSE "called twice"
  /\ \E total \in { Cardinality(TrainingCorpus(tree.files, categories)) } :
       IF \/ TrainingSource \notin dirs
          \/ TrainingOf(TrainingSource) \in dirs
          \/ SizeRefused(size, total)
         THEN /\ ret' = [raised |-> FALSE, logged |-> TRUE]
              /\ ev' = TrainingEvent(size, categories, {})
              /\ UNCHANGED <<fs, dirs>>
         ELSE IF SampleRaises(SampleSize(size, total), total)
           THEN /\ ret' = [raised |-> TRUE, logged |-> FALSE]
                /\ ev' = [TrainingEvent(size, categories, {})
                            EXCEPT !.raised = TRUE]
                /\ UNCHANGED <<fs, dirs>>
           ELSE \E sample \in SUBSET TrainingCorpus(tree.files, categories) :
                  /\ Cardinality(sample) = SampleSize(size, total)
                  /\ ret' = [raised |-> FALSE, logged |-> FALSE]
                  /\ ev' = TrainingEvent(size, categories, sample)
                  /\ dirs' = dirs \cup CopiedDirs(TrainingSource, tree.files,
                                                  sample)
                  /\ fs' = CopiedFiles(fs, TrainingSource, tree.files, sample)
  /\ UNCHANGED <<objs, trainCount, corpus, labels, tree, results, evaluated,
                 csv, axes>>

NextTrainingSet ==
  \E size \in Sizes, categories \in {NoCategories, Categories({"cs.AI"})} :
    CreateTrainingSet(size, categories)

SpecTrainingSet == InitTrainingSet /\ [][NextTrainingSet]_vars

(***************************************************************************)
(* Claims about the leaderboard.                                           *)
(***************************************************************************)
\* s sorts before t as Python compares str: they agree up to a position
\* where s has ended and t has not, or where s has the smaller character.
NameBefore(s, t) ==
  \E k \in 1..Len(t) :
    /\ k <= Len(s) + 1
    /\ \A j \in 1..(k - 1) : s[j] = t[j]
    /\ (k = Len(s) + 1 \/ Ord(s[k]) < Ord(t[k]))

\* Entry a ranks before entry b: higher accuracy, then higher balanced
\* accuracy, then higher MCC, then fewer parameters, then the smaller name.
RanksBefore(a, b) ==
  \/ a.value.Accuracy > b.value.Accuracy
  \/ /\ a.value.Accuracy = b.value.Accuracy
     /\ \/ a.value.Balanced > b.value.Balanced
        \/ /\ a.value.Balanced = b.value.Balanced
           /\ \/ a.value.MCC > b.value.MCC
              \/ /\ a.value.MCC = b.value.MCC
                 /\ \/ a.value.Parameters < b.value.Parameters
                    \/ /\ a.value.Parameters = b.value.Parameters
                       /\ NameBefore(a.key, b.key)

\* The entry of the results mapping a written row came from.
EntryOf(row) ==
  CHOOSE e \in { results[i] : i \in 1..Len(results) } : e.key = row.Model

Orders(n) == { f \in [1..n -> 1..n] : \A i, j \in 1..n : f[i] = f[j] => i = j }

\* C1: the written leaderboard holds each entry of the results once, each
\* row ranks before the next one by the 5-key composite, any two distinct
\* entries are ranked one way and not the other, and every insertion order
\* of the same entries gives the same rows.
C1_LeaderboardOrder ==
  csv.written =>
    LET n == Len(results)
        entries == { results[i] : i \in 1..n }
    IN /\ Len(csv.rows) = n
       /\ \A e \in entries :
            \E i \in 1..n :
              csv.rows[i] = [Model |-> e.key, Accuracy |-> e.value.Accuracy,
                             Balanced |-> e.value.Balanced,
                             MCC |-> e.value.MCC]
       /\ \A i \in 1..(n - 1) :
            RanksBefore(EntryOf(csv.rows[i]), EntryOf(csv.rows[i + 1]))
       /\ \A a, b \in entries :
            a # b => (RanksBefore(a, b) <=> ~RanksBefore(b, a))
       /\ \A f \in Orders(n) :
            LeaderboardRows(SortedItems([i \in 1..n |-> results[f[i]]]))
              = csv.rows

\* C1 witness: a leaderboard was written from three entries with equal
\* scores, two of them with equal parameter counts and one with more, so
\* that the parameter count and the name both decide a place.
C1_Witness ==
  /\ csv.written
  /\ Len(results) = 3
  /\ \A i, j \in 1..3 :
       /\ results[i].value.Accuracy = results[j].value.Accuracy
       /\ results[i].value.Balanced = results[j].value.Balanced
       /\ results[i].value.MCC = results[j].value.MCC
  /\ \E i, j \in 1..3 :
       i # j /\ results[i].value.Parameters = results[j].value.Parameters
  /\ \E i, j \in 1..3 :
       results[i].value.Parameters # results[j].value.Parameters
  /\ \A i \in 1..3 : csv.rows[i].Model = results[i].key

(***************************************************************************)
(* Claims about the sweep of fit_best.                                     *)
(***************************************************************************)
\* The combinations of the sweep: a position in each axis.
Combos ==
  { c \in (1..Len(axes.alphas.vals)) \X (1..Len(axes.windows.vals))
            \X (1..Len(axes.negatives.vals)) : TRUE }

\* The name derived for a combination.
ComboName(c) ==
  DerivedName(axes.alphas.vals[c[1]], axes.windows.vals[c[2]],
              axes.negatives.vals[c[3]])

\* The name of the standard word-vector model: the one of the defaults.
StandardName == NameOfTriple(EffectiveTriple(<< >>))

Count(seq, x) == Cardinality({ i \in 1..Len(seq) : seq[i] = x })
ResultKeys == { results[i].key : i \in 1..Len(results) }

\* fit_best has ended, by returning or by raising, after its three
\* baselines were evaluated.
EndedAfterBaselines == pc \in {"done", "raised"} /\ Len(evaluated) >= 3

\* C2 as stated: when fit_best has ended, a combination named like the
\* standard model was not evaluated and has no entry of its own, and every
\* other combination was evaluated once.
C2_SweepSkipsOnlyTheStandard ==
  EndedAfterBaselines =>
    \A c \in Combos :
      IF ComboName(c) = StandardName
        THEN /\ Count(evaluated, ComboName(c)) = 0
             /\ ComboName(c) \notin ResultKeys
        ELSE Count(evaluated, ComboName(c))
               = Cardinality({ q \in Combos : ComboName(q) = ComboName(c) })

\* C3 as stated: when fit_best has ended, the sweep has added as many rows
\* as there are combinations not named like the standard model.
C3_SweepAddsARowPerCombination ==
  EndedAfterBaselines =>
    Cardinality({ i \in 1..Len(results) :
                    results[i].key \in { ComboName(c) : c \in Combos } })
      = Cardinality({ c \in Combos : ComboName(c) # StandardName })

\* C4 as stated: when fit_best has ended, no evaluation has stored under a
\* key already present, and the leaderboard CSV is written with one row
\* per call of evaluate_model.
C4_OneRowPerEvaluation ==
  EndedAfterBaselines =>
    /\ \A k \in ResultKeys : Count(evaluated, k) = 1
    /\ csv.written
    /\ Len(csv.rows) = Len(evaluated)

(***************************************************************************)
(* Claims about Word2VecModel.fit, load and sentence_vectors.              *)
(***************************************************************************)
IsQuery == ev.op \in {"sentence_vectors", "again"}

\* C5: a fit whose artifact path exists trains nothing, writes nothing and
\* keeps the model handle; a fit whose artifact path does not exist trains
\* once and leaves the trained model at that path; a path that was trained
\* once is never trained again, by any instance.
C5_CacheByPresence ==
  [][ /\ (ev'.op = "fit" /\ ~ev'.raised) =>
           IF ev'.path \in DOMAIN fs
             THEN /\ fs' = fs
                  /\ dirs' = dirs
                  /\ trainCount' = trainCount
                  /\ objs'[ev'.inst].model = objs[ev'.inst].model
             ELSE /\ trainCount'[ev'.path] = trainCount[ev'.path] + 1
                  /\ ev'.path \in DOMAIN fs'
                  /\ objs'[ev'.inst].model.kind = "w2v"
                  /\ fs'[ev'.path] = objs'[ev'.inst].model
      /\ \A p \in ArtifactPaths :
           trainCount[p] >= 1 => trainCount'[p] = trainCount[p] ]_vars

\* C5 witness: the second instance's fit found the artifact the first
\* instance's fit had trained and written.
C5_Witness ==
  /\ ev.op = "fit" /\ ev.inst = "w2" /\ ev.existed
  /\ trainCount[ev.path] = 1
  /\ objs["w1"].model.kind = "w2v"
  /\ objs["w1"].name = objs["w2"].name

\* C6 as stated: every strategy's sentence_vectors returns, for every
\* corpus, a list as long as the corpus whose i-th element is what the
\* call on the i-th document alone returns.
C6_AlignedForEveryStrategy ==
  IsQuery =>
    /\ ~ret.raised
    /\ Len(ret.out) = Len(corpus)
    /\ \A i \in 1..Len(corpus) :
         ret.out[i] =
           SentenceVectors(ClassOf(ev.inst), objs[ev.inst],
                           << corpus[i] >>).out[1]

\* C7: a call of sentence_vectors changes neither the corpus nor any
\* object (name, parameters, model handle) nor the files, and the same call
\* once more gives the same outcome.
C7_PureQuery ==
  [][ (ev'.op \in {"sentence_vectors", "again"}) =>
        /\ corpus' = corpus
        /\ objs' = objs
        /\ fs' = fs
        /\ dirs' = dirs
        /\ (ev'.op = "again" => ret' = ret) ]_vars

\* C7 witness: a fitted word-vector model was queried twice on a corpus
\* with a document.
C7_Witness ==
  /\ ev.op = "again" /\ ev.inst = "w1"
  /\ objs["w1"].model.kind = "w2v"
  /\ corpus # << >>
  /\ Len(ret.out) = Len(corpus)

\* C8 as stated: on an unfit Word2VecModel sentence_vectors does not raise,
\* logs an error and returns one zero vector of the embedding
\* dimensionality per document.
C8_UnfitGivesZeroVectors ==
  (IsQuery /\ ClassOf(ev.inst) = "Word2VecModel"
     /\ objs[ev.inst].model = NoneModel) =>
    /\ ~ret.raised
    /\ ret.logged
    /\ Len(ret.out) = Len(corpus)
    /\ \A i \in 1..Len(ret.out) :
         /\ ret.out[i].kind = "vector"
         /\ Len(ret.out[i].val) = VectorSize
         /\ \A k \in 1..VectorSize : ret.out[i].val[k] = Rat(0, 1)

\* The positions of a document whose token is in the vocabulary.
KnownAt(m, doc) == { j \in 1..Len(doc) : doc[j] \in m.vocab }

RECURSIVE SumOver(_, _, _, _)
SumOver(m, doc, js, k) ==
  IF js = {} THEN 0
  ELSE LET j == CHOOSE x \in js : TRUE
       IN WordVector(m, doc[j])[k] + SumOver(m, doc, js \ {j}, k)

\* C9: on a fitted Word2VecModel every element is a vector of the embedding
\* dimensionality; for a document with tokens in the vocabulary it is the
\* sum of their vectors, repetitions counted, divided by their number, and
\* for a document with none it is all zeros.
C9_MeanOfKnownTokens ==
  (IsQuery /\ ClassOf(ev.inst) = "Word2VecModel"
     /\ objs[ev.inst].model # NoneModel) =>
    /\ ~ret.raised
    /\ Len(ret.out) = Len(corpus)
    /\ \A i \in 1..Len(ret.out) :
         LET m == objs[ev.inst].model
             js == KnownAt(m, corpus[i])
             e == ret.out[i]
         IN /\ e.kind = "vector"
            /\ Len(e.val) = VectorSize
            /\ \A k \in 1..VectorSize :
                 IF js = {} THEN e.val[k] = << 0, 1 >>
                 ELSE /\ e.val[k][2] > 0
                      /\ e.val[k][1] * Cardinality(js)
                           = SumOver(m, corpus[i], js, k) * e.val[k][2]

\* C9 witness: a model whose vocabulary lacks "b" was queried on a corpus
\* with a document that repeats a known token beside an unknown one, and a
\* document of unknown tokens only.
C9_Witness ==
  /\ IsQuery /\ ev.inst = "w1"
  /\ objs["w1"].model.kind = "w2v"
  /\ objs["w1"].model.vocab = {"a"}
  /\ \E i, j \in 1..Len(corpus) :
       /\ corpus[i] = << "a", "a", "b" >>
       /\ corpus[j] = << "c" >>
       /\ ret.out[i].val # ret.out[j].val

\* C10 as stated: no load raises; after a load that could not restore, the
\* model is None and the name is as before; after one that could, the
\* instance holds a model.
C10_LoadNeverRaises ==
  [][ (ev'.op = "load") =>
        /\ ~ev'.raised
        /\ IF ev'.existed
             THEN objs'[ev'.inst].model # NoneModel
             ELSE /\ objs'[ev'.inst].model = NoneModel
                  /\ objs'[ev'.inst].name = objs[ev'.inst].name ]_vars

(***************************************************************************)
(* Claims about construction, the derived name and fit.                    *)
(***************************************************************************)
\* C16 as stated: the driver's eager construction of the standard
\* word-vector model, Word2VecModel(corpus, output, seed), succeeds: the
\* step of fit_best at line 61 does not raise.
C16_EagerConstructionSucceeds ==
  [][ pc = "standard" => pc' # "raised" ]_vars

\* Triples the name is compared against: values that share digits, and
\* values that differ in one component only.
NamingTriples ==
  Triples \cup
    { << FloatVal(25), IntVal(5), IntVal(15) >>,
      << FloatVal(25), IntVal(51), IntVal(5) >>,
      << FloatVal(250), IntVal(5), IntVal(5) >>,
      << FloatVal(100), IntVal(5), IntVal(5) >>,
      << FloatVal(1000), IntVal(5), IntVal(5) >>,
      << IntVal(1), IntVal(5), IntVal(5) >> }

\* C17: after a fit with params the name is
\* word2vec_alpha-{alpha}_window-{window}_negative-{negative} for the
\* effective triple, a key missing from params taking 0.025 / 5 / 5,
\* whatever the output, the instance and its history; it is the name of no
\* other triple.
C17_NameIsAFunctionOfTheTriple ==
  [][ (ev'.op = "fit" /\ ~ev'.raised) =>
        LET p == ev'.params
            alpha == IF "Alpha" \in DOMAIN p THEN p["Alpha"] ELSE FloatVal(25)
            window == IF "Window" \in DOMAIN p THEN p["Window"] ELSE IntVal(5)
            negative ==
              IF "Negative" \in DOMAIN p THEN p["Negative"] ELSE IntVal(5)
            name == objs'[ev'.inst].name
        IN /\ name =
                << "w", "o", "r", "d", "2", "v", "e", "c", "_", "a", "l", "p",
                   "h", "a", "-" >> \o Fmt(alpha)
                  \o << "_", "w", "i", "n", "d", "o", "w", "-" >> \o Fmt(window)
                  \o << "_", "n", "e", "g", "a", "t", "i", "v", "e", "-" >>
                  \o Fmt(negative)
           /\ \A t \in NamingTriples :
                (NameOfTriple(t) = name) <=> (t = << alpha, window, negative >>) ]_vars

\* C17 witness: a fit without params, in one output folder, gave the second
\* instance the name the first instance has from its fit in the other
\* folder.
C17_Witness ==
  /\ ev.op = "fit" /\ ~ev.raised /\ ev.inst = "w2"
  /\ DOMAIN ev.params = {}
  /\ ev.output = << "p" >>
  /\ objs["w1"].model.kind = "w2v"
  /\ ArtifactPath(<< "o" >>, objs["w1"].name) \in DOMAIN fs
  /\ objs["w1"].name = objs["w2"].name

\* C18 as stated: fit on a strategy that needs no training returns without
\* raising and changes no object.
C18_FitIsANoOpWithoutTraining ==
  [][ (ev'.op = "fit" /\ ClassOf(ev'.inst) # "Word2VecModel") =>
        /\ ~ev'.raised
        /\ objs' = objs ]_vars

(***************************************************************************)
(* Claims about load_data.                                                 *)
(***************************************************************************)
\* The files among the first k of the walk whose read succeeded.
ReadSoFar(k) == { i \in 1..k : tree.files[i].readable }

\* The name of the folder with this path.
FolderName(path) == (CHOOSE fc \in FolderChoices : fc.path = path).name

\* C19: while load_data runs and when it has returned, corpus and labels
\* have one entry for each file read so far and none for a file that could
\* not be opened or read; the entries are in the order of the files, the
\* corpus entry the file's tokens and the label the name of its folder.
C19_CorpusAndLabelsAligned ==
  pc \in {"load_data", "loaded"} =>
    LET read == ReadSoFar(tree.done)
    IN /\ Len(corpus) = Len(labels)
       /\ Len(corpus) = Cardinality(read)
       /\ \A i \in read :
            LET j == Cardinality({ x \in read : x <= i })
            IN /\ corpus[j] = tree.files[i].tokens
               /\ labels[j] = FolderName(tree.files[i].folder)

\* C19 witness: load_data returned from a tree in which an unreadable file
\* stands between two readable files of different folders.
C19_Witness ==
  /\ pc = "loaded"
  /\ Len(tree.files) = 3
  /\ tree.files[1].readable /\ ~tree.files[2].readable
  /\ tree.files[3].readable
  /\ tree.files[1].folder # tree.files[3].folder
  /\ tree.files[2].folder # tree.files[3].folder
  /\ Len(labels) = 2

(***************************************************************************)
(* Claims about classify and evaluate_model.                               *)
(***************************************************************************)
\* A call of classify, directly or through evaluate_model, has been made.
Classified == ev.op \in {"classify", "evaluate_model", "again"}

\* The call got to the choice of the classifier, past train_test_split.
ReachedClassifier ==
  Classified /\ ret.classify.at \notin {"sentence_vectors", "split"}

\* C11: once classify chooses its classifier, TF-IDF runs exactly when the
\* harness was handed a classifier, and without one the classifier is the
\* logistic regression on the sentence vectors; a Naive Bayes instance
\* hands the multinomial classifier whatever argument it was called with;
\* through evaluate_model every other class takes the branch without
\* TF-IDF.
C11_TfidfIffClassifierPassed ==
  ReachedClassifier =>
    LET naive == ClassOf(ev.inst) = "NaiveBayesModel"
        passed == naive \/ ev.classifier # "None"
    IN /\ ret.classify.tfidf <=> passed
       /\ ~passed => ret.classify.classifier = "LogisticRegression"
       /\ naive => ret.classify.classifier = "MultinomialNB"
       /\ (~naive /\ ev.classifier # "None") =>
            ret.classify.classifier = ev.classifier
       /\ ev.op = "evaluate_model" =>
            /\ ev.classifier = "None"
            /\ ~naive => ~ret.classify.tfidf

\* A Naive Bayes instance called without a classifier has run TF-IDF and
\* returned.
C11_Witness ==
  /\ ev.op = "classify"
  /\ ev.inst = "nb"
  /\ ev.classifier = "None"
  /\ ret.classify.tfidf
  /\ ~ret.classify.raised

\* The instance of the call is one whose sentence vectors suit the
\* classifier it ends up with: Naive Bayes, or a pretrained transformer or
\* a fitted word-vector model called without a classifier.
SuitableCall ==
  /\ Classified
  /\ \/ ev.inst = "nb"
     \/ /\ ev.classifier = "None"
        /\ \/ ev.inst = "mini"
           \/ ev.inst = "w1" /\ objs["w1"].model # NoneModel

\* The distinct labels of the input.
LabelSet == { labels[i] : i \in 1..Len(labels) }

ConfusionPath(name) ==
  PathJoin(ConfusionDir(ClassifyOutput), CsvName(name))

\* C12 as stated: on a well-formed input, whatever the split, classify
\* returns and has written a confusion matrix with a row and a column for
\* each distinct label.
C12_ClassifyCompletesWithEveryClass ==
  SuitableCall =>
    /\ ~ret.classify.raised
    /\ ConfusionPath(objs[ev.inst].name) \in DOMAIN fs
    /\ LET cf == fs[ConfusionPath(objs[ev.inst].name)].rows
       IN /\ { cf.index[k] : k \in 1..Len(cf.index) } = LabelSet
          /\ Len(cf.index) = Cardinality(LabelSet)
          /\ Len(cf.cells) = Cardinality(LabelSet)
          /\ \A r \in 1..Len(cf.cells) :
               Len(cf.cells[r]) = Cardinality(LabelSet)

\* The names of the per-class rows of the report: all but the three
\* summary rows.
ClassRows(report) == { report[k] : k \in 1..(Len(report) - 3) }

InUnitInterval(q) == q[2] > 0 /\ 0 <= q[1] /\ q[1] <= q[2]

\* The test samples of the call that were predicted their own class.
CorrectlyPredicted ==
  { i \in ev.test :
      ev.pred[i] = Encode(LabelClasses(labels), labels[i]) }

UnfitCall ==
  /\ Classified
  /\ ev.inst \in {"w1", "tf"}
  /\ objs[ev.inst].model = NoneModel

\* C15 as stated: classify on a model that is not fit does not raise: it
\* logs the missing model, goes on with the fallback vectors and returns
\* its metrics, and evaluate_model gives the row of the leaderboard.
C15_UnfitClassifyReturnsMetrics ==
  UnfitCall =>
    /\ ~ret.classify.raised
    /\ ret.classify.logged
    /\ ret.classify.fitted
    /\ ev.op = "evaluate_model" =>
         ret.evaluation
           = Evaluation(ret.classify.metrics, objs[ev.inst].parameters)

\* The four folders of classify and its three files for an instance.
ClassifyFolders == { PersistDirs(ClassifyOutput)[k] : k \in 1..4 }
ClassifyFiles(name) ==
  { PathJoin(ClassificationDir(ClassifyOutput), CsvName(name)),
    PathJoin(ReportDir(ClassifyOutput), CsvName(name)),
    ConfusionPath(name) }

\* What holds after a call of classify that got to its folders: no folder
\* that was there is gone and the four folders are there, whichever of
\* them were there before; and when the call returned, the three files
\* named after the instance exist, with the metrics, the report and the
\* confusion matrix of the call.
FoldersAndFilesInPlace ==
  (Classified /\ ret.classify.fitted) =>
    /\ ev.dirs \subseteq dirs
    /\ ClassifyFolders \subseteq dirs
    /\ ~ret.classify.raised =>
         /\ ClassifyFiles(objs[ev.inst].name) \subseteq DOMAIN fs
         /\ fs[PathJoin(ClassificationDir(ClassifyOutput),
                        CsvName(objs[ev.inst].name))]
              = MetricCsv(ret.classify.metrics)
         /\ fs[PathJoin(ReportDir(ClassifyOutput),
                        CsvName(objs[ev.inst].name))]
              = ReportCsv(ret.classify.report)
         /\ fs[ConfusionPath(objs[ev.inst].name)].rows.index
              = ret.classify.entries

\* C20: the folders of classify are made when missing and left alone when
\* there, from every consistent set of the four folders; a call that
\* returns leaves the three files; and classify called again with the same
\* arguments after a call that returned returns too, with the same values,
\* and leaves the same folders and the same three files with the same
\* content.
C20_FoldersIdempotentAndFilesRewritten ==
  [][ /\ FoldersAndFilesInPlace'
      /\ (ev'.op = "again" /\ ~ev.raised) =>
           /\ ~ret'.classify.raised
           /\ ret'.classify.metrics = ret.classify.metrics
           /\ dirs' = dirs
           /\ fs' = fs ]_vars

\* classify has returned a second time where the output folder and its
\* Classification folder were there before the first call and the two
\* others were not.
C20_Witness ==
  /\ ev.op = "again"
  /\ ev.start = {ClassifyOutput, ClassificationDir(ClassifyOutput)}
  /\ ~ret.classify.raised
  /\ ClassifyFiles(objs[ev.inst].name) \subseteq DOMAIN fs
  /\ ClassifyFolders \subseteq dirs

(***************************************************************************)
(* Claims about the order of fit_best and its missing directory.           *)
(***************************************************************************)
\* The combinations in the order of the three nested loops: alpha
\* outermost, negative innermost.
SweepOrder ==
  LET nw == Len(axes.windows.vals)
      nn == Len(axes.negatives.vals)
  IN [k \in 1..(Len(axes.alphas.vals) * nw * nn) |->
        << ((k - 1) \div (nw * nn)) + 1,
           (((k - 1) \div nn) % nw) + 1,
           ((k - 1) % nn) + 1 >>]

\* The keys fit_best is to evaluate, in order: the three baselines, the
\* standard word-vector model, the combinations not named like it.
ExpectedEvaluations ==
  << NewNaiveBayesModel.name, NewMiniTransformerModel.name,
     NewE5TransformerModel.name, StandardKey(StandardName) >>
    \o SelectSeq([k \in 1..Len(SweepOrder) |-> ComboName(SweepOrder[k])],
                 LAMBDA name : name # StandardName)

\* C21 as stated: the evaluations made so far are the first of the
\* expected order, the leaderboard CSV is written only when all of them
\* are made, and a run of fit_best that got past its baselines ends with
\* all of them made and the CSV written.
C21_StrictSequentialPipeline ==
  /\ Len(evaluated) <= Len(ExpectedEvaluations)
  /\ evaluated = SubSeq(ExpectedEvaluations, 1, Len(evaluated))
  /\ csv.written => evaluated = ExpectedEvaluations
  /\ EndedAfterBaselines =>
       /\ evaluated = ExpectedEvaluations
       /\ csv.written

\* C24 as stated: with the empty pair that load_data returns for a missing
\* directory, fit_best evaluates no model and does not raise.
C24_EmptyCorpusIsNotEvaluated ==
  (corpus = << >> /\ labels = << >>) =>
    /\ pc # "raised"
    /\ evaluated = << >>
    /\ "nb" \notin DOMAIN objs

(***************************************************************************)
(* Claims about the name and the model of a Word2VecModel.                 *)
(***************************************************************************)
\* C22 as stated: a fit that finds its artifact leaves the instance
\* holding the model of that artifact.
C22_SkippedFitLoadsTheArtifact ==
  [][ (ev'.op = "fit" /\ ~ev'.raised /\ ev'.existed) =>
        objs'[ev'.inst].model = fs[ev'.path] ]_vars

\* C25 as stated: an instance that holds a model is named after the triple
\* that model was trained with.
C25_NameMatchesTheModel ==
  \A i \in {"w1", "w2"} :
    objs[i].model # NoneModel =>
      objs[i].name = NameOfTriple(objs[i].model.triple)

\* C26 as stated: load of an artifact that fit wrote gives the instance
\* the name fit derived for the triple of that artifact.
C26_LoadRestoresTheName ==
  [][ (ev'.op = "load" /\ ev'.existed /\ ev'.path \in ArtifactPaths) =>
        /\ objs'[ev'.inst].model = fs[ev'.path]
        /\ objs'[ev'.inst].name = NameOfTriple(fs[ev'.path].triple) ]_vars

(***************************************************************************)
(* Claims about create_training_set.                                       *)
(***************************************************************************)
\* The files a call can choose from, counted in the tree as it is.
CandidateTotal(categories) ==
  Cardinality({ k \in 1..Len(tree.files) :
                  tree.files[k] \in CategoriesOf(categories) })

\* A call with these arguments meets a configuration error: the directory
\* is missing, the training folder is there, or the size is a float
\* outside (0, 1], an int outside (0, total], or neither.
ConfigurationError(size, categories) ==
  \/ TrainingSource \notin dirs
  \/ TrainingOf(TrainingSource) \in dirs
  \/ size.type = "float" /\ (size.val <= 0 \/ size.val > 1000)
  \/ size.type = "int"
       /\ (size.val < 1 \/ size.val > CandidateTotal(categories))
  \/ size.type \notin {"float", "int"}

====
